---------------------------- MODULE Spec2Model ----------------------------
(***************************************************************************)
(* Customer REST service (service/routes.py).                             *)
(*                                                                         *)
(* The state is the customers table behind service.models.Customer, the   *)
(* id sequence of that table, and the HTTP exchange at hand (request and  *)
(* response).  Each handler action is one request handled from start to   *)
(* finish: handlers are single-threaded per request and share nothing but *)
(* the table.  Deliver ends the exchange; the next request starts from    *)
(* the table alone.                                                        *)
(*                                                                         *)
(* JSON values on the wire and values in the table are kept apart: a date *)
(* travels as an ISO-8601 text, modelled by the triple <<y, m, d>> of its *)
(* three number groups, and is stored as a date value, modelled by the    *)
(* record [year, month, day]; fromisoformat and isoformat convert.        *)
(***************************************************************************)
EXTENDS Integers, Sequences, FiniteSets, TLC

VARIABLES
    store,      \* the customers table: id -> row
    next_id,    \* next value of the table's id sequence
    request,    \* the request handled last
    response,   \* the response given to it
    posted      \* history: id -> body of the POST that created it, kept
                \* while no PUT, suspend or DELETE has addressed the id

vars == <<store, next_id, request, response, posted>>

---------------------------------------------------------------------------
(* Bounds *)

\* Largest id the sequence hands out (POST is disabled beyond it).
MaxId == 2

---------------------------------------------------------------------------
(* HTTP status codes (service/common/status.py) *)

HTTP_200_OK == 200
HTTP_201_CREATED == 201
HTTP_204_NO_CONTENT == 204
HTTP_400_BAD_REQUEST == 400
HTTP_404_NOT_FOUND == 404
HTTP_415_UNSUPPORTED_MEDIA_TYPE == 415
HTTP_405_METHOD_NOT_ALLOWED == 405
HTTP_500_INTERNAL_SERVER_ERROR == 500

---------------------------------------------------------------------------
(* Wire values *)

\* The fields of create_model, in declaration order.
CreateFields == {"name", "address", "email", "phone_number", "member_since", "status"}

\* Fields of create_model that carry text.
TextFields == {"name", "address", "email", "phone_number", "status"}

\* Content-Type header values; NoContentType is a request without the header.
NoContentType == "<absent>"
JsonType == "application/json"
ContentTypes == {NoContentType, JsonType, "application/json; charset=utf-8", "text/html"}

\* ISO dates as their number groups; <<2023, 2, 30>> is not a calendar date.
IsoDates == {<<2020, 1, 15>>, <<2024, 2, 29>>, <<2023, 2, 30>>}

BaseBody ==
    [name |-> "Ann", address |-> "1 Main St", email |-> "ann@example.com",
     phone_number |-> "555-0001", member_since |-> <<2020, 1, 15>>,
     status |-> "active"]

AltBody ==
    [name |-> "Bob", address |-> "2 Oak Ave", email |-> "bob@example.com",
     phone_number |-> "555-0002", member_since |-> <<2024, 2, 29>>,
     status |-> "suspended"]

\* The base customer renamed.
RenamedBody == [BaseBody EXCEPT !.name = AltBody.name]

\* The base customer moved: other address, email and phone number.
MovedBody ==
    [BaseBody EXCEPT !.address = AltBody.address, !.email = AltBody.email,
                     !.phone_number = AltBody.phone_number]

\* The base customer with the other date and status.
LapsedBody ==
    [BaseBody EXCEPT !.member_since = AltBody.member_since, !.status = AltBody.status]

\* Full bodies: every field takes two values, and two bodies agree in
\* some fields and differ in others.
FullBodies == {BaseBody, RenamedBody, MovedBody, LapsedBody}

\* A body that also carries an "id" member (as a client echoing a record
\* it read does).
WithId(b, i) == [f \in DOMAIN b \cup {"id"} |-> IF f = "id" THEN i ELSE b[f]]

\* A body without member f.
Without(b, f) == [g \in DOMAIN b \ {f} |-> b[g]]

\* The empty JSON object {}.
EmptyObject == [f \in {} |-> 0]

\* Bodies that deserialize rejects.
BadBodies ==
    {EmptyObject, Without(BaseBody, "name"), Without(AltBody, "status"),
     [BaseBody EXCEPT !.member_since = <<2023, 2, 30>>]}

Bodies ==
    FullBodies
    \cup {WithId(b, i) : b \in {BaseBody, RenamedBody}, i \in 1..MaxId}
    \cup BadBodies

\* The bodies sent under a Content-Type: every body as application/json,
\* two of them otherwise.
BodiesFor(ct) ==
    IF ct = JsonType THEN Bodies
    ELSE {BaseBody, RenamedBody}

\* Ids a URL may name: 0 is never assigned.
UrlIds == 0..MaxId

---------------------------------------------------------------------------
(* Dates *)

IsLeap(y) == (y % 4 = 0 /\ y % 100 # 0) \/ y % 400 = 0

DaysInMonth(y, m) ==
    IF m = 2 THEN (IF IsLeap(y) THEN 29 ELSE 28)
    ELSE IF m \in {4, 6, 9, 11} THEN 30 ELSE 31

\* The text is the ISO form of a calendar date.
IsIsoDate(s) ==
    /\ s[2] \in 1..12
    /\ s[3] \in 1..DaysInMonth(s[1], s[2])

\* date.fromisoformat: defined on the texts that satisfy IsIsoDate.
fromisoformat(s) == [year |-> s[1], month |-> s[2], day |-> s[3]]

\* date.isoformat
isoformat(d) == <<d.year, d.month, d.day>>

---------------------------------------------------------------------------
(* service.models.Customer: the persistence layer *)

\* Customer.find(id): the row with that id, if any.
find_exists(customer_id) == customer_id \in DOMAIN store

find(customer_id) == store[customer_id]

\* Customer.all(): the rows of the table.
all == {store[i] : i \in DOMAIN store}

\* Customer.find_by_name(name) and its siblings: the rows whose attribute
\* equals the value.
find_by(attribute, value) == {r \in all : r[attribute] = value}

\* Customer.deserialize(data) raises DataValidationError (answered with
\* 400 Bad Request) when a member is missing or the date does not parse.
deserialize_ok(data) ==
    /\ CreateFields \subseteq DOMAIN data
    /\ IsIsoDate(data.member_since)

\* Customer.deserialize(data): every attribute but the id is taken from
\* the data; an "id" member of the data is not read.
deserialize(customer, data) ==
    [customer EXCEPT
        !.name = data.name,
        !.address = data.address,
        !.email = data.email,
        !.phone_number = data.phone_number,
        !.member_since = fromisoformat(data.member_since),
        !.status = data.status]

\* Customer(): a fresh object; it has no id yet (0 stands for None).
NewCustomer ==
    [id |-> 0, name |-> "", address |-> "", email |-> "", phone_number |-> "",
     member_since |-> fromisoformat(<<1, 1, 1>>), status |-> ""]

\* Customer.serialize(): the row as a JSON object.
serialize(customer) ==
    [id |-> customer.id,
     name |-> customer.name,
     address |-> customer.address,
     email |-> customer.email,
     phone_number |-> customer.phone_number,
     member_since |-> isoformat(customer.member_since),
     status |-> customer.status]

\* Customer.create(): the table assigns the next id of its sequence.
create(customer) == store @@ (next_id :> [customer EXCEPT !.id = next_id])

\* Customer.update(): the row with the object's id is rewritten.
update(customer) == [store EXCEPT ![customer.id] = customer]

\* Customer.delete(): the row with the object's id is removed.
delete(customer) == [i \in DOMAIN store \ {customer.id} |-> store[i]]

---------------------------------------------------------------------------
(* Requests and responses *)

NoArgs == EmptyObject

\* Query strings of GET /customers: none, one parameter, or two.
QueryArgs ==
    {NoArgs}
    \cup UNION {{[q \in {p} |-> v] : v \in {BaseBody[p], AltBody[p]}} :
                  p \in TextFields \ {"name"}}
    \cup {[q \in {"name"} |-> v] : v \in {BaseBody.name, AltBody.name, ""}}
    \cup {[q \in {"member_since"} |-> d] : d \in IsoDates}
    \cup {[q \in {p1, p2} |-> IF q = p1 THEN BaseBody[q] ELSE AltBody[q]] :
             p1 \in CreateFields, p2 \in {"name", "email", "status"}}
    \cup {[name |-> "", address |-> AltBody.address],
          [name |-> "", status |-> AltBody.status],
          [name |-> BaseBody.name, member_since |-> <<2023, 2, 30>>],
          [name |-> BaseBody.name, address |-> AltBody.address, status |-> AltBody.status]}

Request(method, path, customer_id, ct, data, args) ==
    [method |-> method, path |-> path, id |-> customer_id, ct |-> ct,
     body |-> data, args |-> args]

\* No Location header.
NoLocation == <<>>

\* url_for("customer_resource", customer_id=id): /customers/{id}
url_for_customer_resource(customer_id) == <<"customers", customer_id>>

\* abort(code, message): an error response.
abort(code) == [code |-> code, kind |-> "error", body |-> <<>>, location |-> NoLocation]

\* A response whose body is one JSON object.
ObjectResponse(code, obj, location) ==
    [code |-> code, kind |-> "object", body |-> obj, location |-> location]

\* A response whose body is a JSON array.
ArrayResponse(code, objs) ==
    [code |-> code, kind |-> "array", body |-> objs, location |-> NoLocation]

\* A response without content.
EmptyResponse(code) ==
    [code |-> code, kind |-> "empty", body |-> <<>>, location |-> NoLocation]

\* marshal_with(customer_model): the members of customer_model are copied
\* from the object; fields.Date parses the ISO text and formats it again.
marshal(obj) ==
    [id |-> obj.id,
     name |-> obj.name,
     address |-> obj.address,
     email |-> obj.email,
     phone_number |-> obj.phone_number,
     member_since |-> isoformat(fromisoformat(obj.member_since)),
     status |-> obj.status]

\* The orders in which a query may return a set of rows.
Orderings(S) ==
    {q \in [1..Cardinality(S) -> S] : \A i, j \in 1..Cardinality(S) : q[i] = q[j] => i = j}

\* Variant of the check: only a present header is compared.
check_content_type_if_present(ct, content_type) ==
    IF ct = NoContentType THEN TRUE
    ELSE ct = content_type

\* check_content_type(content_type): TRUE when the request passes, FALSE
\* when it is aborted with 415.
check_content_type(ct, content_type) ==
    IF ct = NoContentType THEN FALSE
    ELSE ct = content_type

\* request.is_json, which request.get_json() (api.payload) requires: the
\* media type, parameters apart, is application/json.
is_json(ct) == ct \in {JsonType, "application/json; charset=utf-8"}

\* History kept for the round trip: the id is no longer "as posted" once
\* a PUT, suspend or DELETE has addressed it.
Touched(customer_id) == [i \in DOMAIN posted \ {customer_id} |-> posted[i]]

---------------------------------------------------------------------------
(* PATH: /customers/{id} *)

\* Variant of the read: the lookup ignores the id and takes the first row.
CustomerResource_get_response_first_row(customer_id) ==
    IF ~find_exists(customer_id)
    THEN abort(HTTP_404_NOT_FOUND)
    ELSE ObjectResponse(HTTP_200_OK,
             marshal(serialize(find(CHOOSE i \in DOMAIN store : \A j \in DOMAIN store : i <= j))),
             NoLocation)

\* GET /customers/{id}: the response.
CustomerResource_get_response(customer_id) ==
    IF ~find_exists(customer_id)
    THEN abort(HTTP_404_NOT_FOUND)
    ELSE ObjectResponse(HTTP_200_OK, marshal(serialize(find(customer_id))), NoLocation)

\* Variant of the read: a customer that is not found is answered with
\* 200 and an empty customer.
CustomerResource_get_no_abort(customer_id) ==
    /\ request' = Request("GET", "customer", customer_id, NoContentType, EmptyObject, NoArgs)
    /\ response' =
          IF ~find_exists(customer_id)
          THEN ObjectResponse(HTTP_200_OK, marshal(serialize(NewCustomer)), NoLocation)
          ELSE ObjectResponse(HTTP_200_OK, marshal(serialize(find(customer_id))), NoLocation)
    /\ UNCHANGED <<store, next_id, posted>>

\* GET /customers/{id}
CustomerResource_get(customer_id) ==
    /\ request' = Request("GET", "customer", customer_id, NoContentType, EmptyObject, NoArgs)
    /\ response' = CustomerResource_get_response(customer_id)
    /\ UNCHANGED <<store, next_id, posted>>

\* Variant of the update: the id is taken from the body when it has one.
CustomerResource_put_body_id(customer_id, ct, data) ==
    /\ request' = Request("PUT", "customer", customer_id, ct, data, NoArgs)
    /\ posted' = Touched(customer_id)
    /\ next_id' = next_id
    /\ IF ~check_content_type(ct, JsonType)
       THEN /\ response' = abort(HTTP_415_UNSUPPORTED_MEDIA_TYPE)
            /\ store' = store
       ELSE IF ~find_exists(customer_id)
       THEN /\ response' = abort(HTTP_404_NOT_FOUND)
            /\ store' = store
       ELSE IF ~deserialize_ok(data)
       THEN /\ response' = abort(HTTP_400_BAD_REQUEST)
            /\ store' = store
       ELSE LET updated == deserialize(find(customer_id), data)
                customer == IF "id" \in DOMAIN data /\ data.id \in DOMAIN store
                            THEN [updated EXCEPT !.id = data.id] ELSE updated
            IN
            /\ store' = update(customer)
            /\ response' = ObjectResponse(HTTP_200_OK, marshal(serialize(customer)), NoLocation)

\* Variant of the update: an updated customer is made active again.
CustomerResource_put_reactivate(customer_id, ct, data) ==
    /\ request' = Request("PUT", "customer", customer_id, ct, data, NoArgs)
    /\ posted' = Touched(customer_id)
    /\ next_id' = next_id
    /\ IF ~check_content_type(ct, JsonType)
       THEN /\ response' = abort(HTTP_415_UNSUPPORTED_MEDIA_TYPE)
            /\ store' = store
       ELSE IF ~find_exists(customer_id)
       THEN /\ response' = abort(HTTP_404_NOT_FOUND)
            /\ store' = store
       ELSE IF ~deserialize_ok(data)
       THEN /\ response' = abort(HTTP_400_BAD_REQUEST)
            /\ store' = store
       ELSE LET customer == [deserialize(find(customer_id), data) EXCEPT !.status = "active"] IN
            /\ store' = update(customer)
            /\ response' = ObjectResponse(HTTP_200_OK, marshal(serialize(customer)), NoLocation)

\* Variant of the update: a customer that is not found is inserted under
\* the id of the URL.
CustomerResource_put_upsert(customer_id, ct, data) ==
    /\ request' = Request("PUT", "customer", customer_id, ct, data, NoArgs)
    /\ posted' = Touched(customer_id)
    /\ next_id' = next_id
    /\ IF ~check_content_type(ct, JsonType)
       THEN /\ response' = abort(HTTP_415_UNSUPPORTED_MEDIA_TYPE)
            /\ store' = store
       ELSE IF ~deserialize_ok(data)
       THEN /\ response' = abort(HTTP_400_BAD_REQUEST)
            /\ store' = store
       ELSE LET customer == IF find_exists(customer_id)
                            THEN deserialize(find(customer_id), data)
                            ELSE [deserialize(NewCustomer, data) EXCEPT !.id = customer_id]
            IN
            /\ store' = (customer_id :> customer) @@ store
            /\ response' = ObjectResponse(HTTP_200_OK, marshal(serialize(customer)), NoLocation)

\* Variant of the update: the row is looked up before the media type is
\* checked.
CustomerResource_put_code_lookup_first(customer_id, ct, data) ==
    IF ~find_exists(customer_id) THEN HTTP_404_NOT_FOUND
    ELSE IF ~check_content_type(ct, JsonType) THEN HTTP_415_UNSUPPORTED_MEDIA_TYPE
    ELSE IF ~deserialize_ok(data) THEN HTTP_400_BAD_REQUEST
    ELSE HTTP_200_OK

\* PUT /customers/{id}: the status the handler ends with.
CustomerResource_put_code(customer_id, ct, data) ==
    IF ~check_content_type(ct, JsonType) THEN HTTP_415_UNSUPPORTED_MEDIA_TYPE
    ELSE IF ~find_exists(customer_id) THEN HTTP_404_NOT_FOUND
    ELSE IF ~deserialize_ok(data) THEN HTTP_400_BAD_REQUEST
    ELSE HTTP_200_OK

\* PUT /customers/{id}
CustomerResource_put(customer_id, ct, data) ==
    /\ request' = Request("PUT", "customer", customer_id, ct, data, NoArgs)
    /\ posted' = Touched(customer_id)
    /\ next_id' = next_id
    /\ LET code == CustomerResource_put_code(customer_id, ct, data) IN
       IF code # HTTP_200_OK
       THEN /\ response' = abort(code)
            /\ store' = store
       ELSE LET customer == deserialize(find(customer_id), data) IN
            /\ store' = update(customer)
            /\ response' = ObjectResponse(HTTP_200_OK, marshal(serialize(customer)), NoLocation)

\* Variant of the delete: the row is marked instead of removed.
CustomerResource_delete_store_soft(customer_id) ==
    IF find_exists(customer_id)
    THEN update([find(customer_id) EXCEPT !.status = "deleted"])
    ELSE store

\* DELETE /customers/{id}: the table the handler leaves.
CustomerResource_delete_store(customer_id) ==
    IF find_exists(customer_id) THEN delete(find(customer_id)) ELSE store

\* DELETE /customers/{id}
CustomerResource_delete(customer_id) ==
    /\ request' = Request("DELETE", "customer", customer_id, NoContentType, EmptyObject, NoArgs)
    /\ posted' = Touched(customer_id)
    /\ next_id' = next_id
    /\ store' = CustomerResource_delete_store(customer_id)
    /\ response' = EmptyResponse(HTTP_204_NO_CONTENT)

---------------------------------------------------------------------------
(* PATH: /customers *)

\* customer_args.parse_args(): a member_since that is no ISO date is
\* rejected with 400.
parse_args_ok(args) == "member_since" \in DOMAIN args => IsIsoDate(args.member_since)

\* args[p] is set and not empty.
Given(args, p) == p \in DOMAIN args /\ args[p] # ""

\* Variant of the list: without a filter the result stays the empty
\* list it is initialised with.
list_customers_no_default(args) ==
    IF Given(args, "name") THEN find_by("name", args.name)
    ELSE IF Given(args, "address") THEN find_by("address", args.address)
    ELSE IF Given(args, "email") THEN find_by("email", args.email)
    ELSE IF Given(args, "phone_number") THEN find_by("phone_number", args.phone_number)
    ELSE IF "member_since" \in DOMAIN args
         THEN find_by("member_since", fromisoformat(args.member_since))
    ELSE {}

\* Variant of the list: the email branch looks the value up among the
\* addresses.
list_customers_email_as_address(args) ==
    IF Given(args, "name") THEN find_by("name", args.name)
    ELSE IF Given(args, "address") THEN find_by("address", args.address)
    ELSE IF Given(args, "email") THEN find_by("address", args.email)
    ELSE IF Given(args, "phone_number") THEN find_by("phone_number", args.phone_number)
    ELSE IF "member_since" \in DOMAIN args
         THEN find_by("member_since", fromisoformat(args.member_since))
    ELSE all

\* Variant of the list: a name and an address given together are both
\* applied.
list_customers_combined(args) ==
    IF Given(args, "name")
    THEN {r \in find_by("name", args.name) :
              Given(args, "address") => r.address = args.address}
    ELSE IF Given(args, "address") THEN find_by("address", args.address)
    ELSE IF Given(args, "email") THEN find_by("email", args.email)
    ELSE IF Given(args, "phone_number") THEN find_by("phone_number", args.phone_number)
    ELSE IF "member_since" \in DOMAIN args
         THEN find_by("member_since", fromisoformat(args.member_since))
    ELSE all

\* The rows the if/elif chain of the list handler selects.
list_customers(args) ==
    IF Given(args, "name") THEN find_by("name", args.name)
    ELSE IF Given(args, "address") THEN find_by("address", args.address)
    ELSE IF Given(args, "email") THEN find_by("email", args.email)
    ELSE IF Given(args, "phone_number") THEN find_by("phone_number", args.phone_number)
    ELSE IF "member_since" \in DOMAIN args
         THEN find_by("member_since", fromisoformat(args.member_since))
    ELSE all

\* GET /customers: the responses (a query returns its rows in some order).
CustomerCollection_get_responses(args) ==
    IF ~parse_args_ok(args)
    THEN {abort(HTTP_400_BAD_REQUEST)}
    ELSE {ArrayResponse(HTTP_200_OK,
              [i \in DOMAIN customers |-> marshal(serialize(customers[i]))]) :
          customers \in Orderings(list_customers(args))}

\* GET /customers
CustomerCollection_get(args) ==
    /\ request' = Request("GET", "customers", 0, NoContentType, EmptyObject, args)
    /\ response' \in CustomerCollection_get_responses(args)
    /\ UNCHANGED <<store, next_id, posted>>

\* Variant of the create: the id is taken from the body when it has one.
CustomerCollection_post_body_id(ct, data) ==
    /\ request' = Request("POST", "customers", 0, ct, data, NoArgs)
    /\ IF ~is_json(ct)
       THEN /\ response' = abort(HTTP_415_UNSUPPORTED_MEDIA_TYPE)
            /\ UNCHANGED <<store, next_id, posted>>
       ELSE IF ~deserialize_ok(data)
       THEN /\ response' = abort(HTTP_400_BAD_REQUEST)
            /\ UNCHANGED <<store, next_id, posted>>
       ELSE LET new_id == IF "id" \in DOMAIN data THEN data.id ELSE next_id
                customer == [deserialize(NewCustomer, data) EXCEPT !.id = new_id]
            IN
            /\ next_id <= MaxId
            /\ store' = (new_id :> customer) @@ store
            /\ next_id' = next_id + 1
            /\ posted' = (new_id :> data) @@ posted
            /\ response' = ObjectResponse(HTTP_201_CREATED, marshal(serialize(customer)),
                                          url_for_customer_resource(new_id))

\* Variant of the create: the row is created before the body is
\* deserialized, so a rejected body leaves a blank row.
CustomerCollection_post_create_first(ct, data) ==
    /\ request' = Request("POST", "customers", 0, ct, data, NoArgs)
    /\ IF ~is_json(ct)
       THEN /\ response' = abort(HTTP_415_UNSUPPORTED_MEDIA_TYPE)
            /\ UNCHANGED <<store, next_id, posted>>
       ELSE /\ next_id <= MaxId
            /\ next_id' = next_id + 1
            /\ IF ~deserialize_ok(data)
               THEN /\ store' = create(NewCustomer)
                    /\ posted' = posted
                    /\ response' = abort(HTTP_400_BAD_REQUEST)
               ELSE LET customer == [deserialize(NewCustomer, data) EXCEPT !.id = next_id] IN
                    /\ store' = create(customer)
                    /\ posted' = posted @@ (customer.id :> data)
                    /\ response' = ObjectResponse(HTTP_201_CREATED,
                                        marshal(serialize(customer)),
                                        url_for_customer_resource(customer.id))

\* POST /customers: the status the handler ends with.
CustomerCollection_post_code(ct, data) ==
    IF ~is_json(ct) THEN HTTP_415_UNSUPPORTED_MEDIA_TYPE
    ELSE IF ~deserialize_ok(data) THEN HTTP_400_BAD_REQUEST
    ELSE HTTP_201_CREATED

\* POST /customers
CustomerCollection_post(ct, data) ==
    /\ request' = Request("POST", "customers", 0, ct, data, NoArgs)
    /\ LET code == CustomerCollection_post_code(ct, data) IN
       IF code # HTTP_201_CREATED
       THEN /\ response' = abort(code)
            /\ UNCHANGED <<store, next_id, posted>>
       ELSE LET customer == [deserialize(NewCustomer, data) EXCEPT !.id = next_id] IN
            /\ next_id <= MaxId
            /\ store' = create(customer)
            /\ next_id' = next_id + 1
            /\ posted' = posted @@ (customer.id :> data)
            /\ response' = ObjectResponse(HTTP_201_CREATED, marshal(serialize(customer)),
                                          url_for_customer_resource(customer.id))

---------------------------------------------------------------------------
(* PATH: /customers/{id}/suspend *)

\* Variant of the suspension: every customer is suspended.
SuspendResource_put_all(customer_id) ==
    /\ request' = Request("PUT", "suspend", customer_id, NoContentType, EmptyObject, NoArgs)
    /\ posted' = Touched(customer_id)
    /\ next_id' = next_id
    /\ IF find_exists(customer_id)
       THEN LET customer == [find(customer_id) EXCEPT !.status = "suspended"] IN
            /\ store' = [i \in DOMAIN store |-> [store[i] EXCEPT !.status = "suspended"]]
            /\ response' = ObjectResponse(HTTP_200_OK, marshal(serialize(customer)), NoLocation)
       ELSE /\ response' = abort(HTTP_404_NOT_FOUND)
            /\ store' = store

\* PUT /customers/{id}/suspend
SuspendResource_put(customer_id) ==
    /\ request' = Request("PUT", "suspend", customer_id, NoContentType, EmptyObject, NoArgs)
    /\ posted' = Touched(customer_id)
    /\ next_id' = next_id
    /\ IF find_exists(customer_id)
       THEN LET customer == [find(customer_id) EXCEPT !.status = "suspended"] IN
            /\ store' = update(customer)
            /\ response' = ObjectResponse(HTTP_200_OK, marshal(serialize(customer)), NoLocation)
       ELSE /\ response' = abort(HTTP_404_NOT_FOUND)
            /\ store' = store

---------------------------------------------------------------------------
(* PATH: / *)

\* The rules registered for "/", in the order of registration, each with
\* the methods it accepts.
RootRules ==
    <<[view |-> "index", methods |-> {"GET"}],
      [view |-> "get_service_info", methods |-> {"GET"}],
      [view |-> "handle_root_non_get_requests",
       methods |-> {"POST", "PUT", "DELETE", "PATCH"}]>>

\* The methods a request on "/" is made with.
RootMethods == {"GET", "POST", "PUT", "DELETE", "PATCH"}

\* URL matching: of the rules with the same path, the first registered
\* one that accepts the method is taken. index (line 44) and
\* get_service_info (line 51) are both registered for GET on "/", under
\* different endpoint names, so neither replaces the other and every GET
\* goes to index; test_index (tests 79-84) expects the answer of
\* get_service_info, which this registration order never gives.
dispatch_root(method) ==
    RootRules[CHOOSE k \in 1..Len(RootRules) :
                  /\ method \in RootRules[k].methods
                  /\ \A j \in 1..(k - 1) : method \notin RootRules[j].methods].view

\* index(): app.send_static_file("index.html"), the page when the static
\* folder has it and 404 when it has not.
index ==
    {[code |-> HTTP_200_OK, kind |-> "file", body |-> <<>>, location |-> NoLocation],
     abort(HTTP_404_NOT_FOUND)}

\* get_service_info(): url_for("list_customers") names an endpoint that no
\* route registers (the collection is "customer_collection"), so building
\* the metadata fails.
get_service_info == {abort(HTTP_500_INTERNAL_SERVER_ERROR)}

\* handle_root_non_get_requests(): a JSON error object with 405.
handle_root_non_get_requests ==
    {ObjectResponse(HTTP_405_METHOD_NOT_ALLOWED,
         [error |-> "Method not allowed. Please use GET method for this endpoint."],
         NoLocation)}

\* A request on "/".
Root(method) ==
    /\ request' = Request(method, "root", 0, NoContentType, EmptyObject, NoArgs)
    /\ LET view == dispatch_root(method) IN
       response' \in (IF view = "index" THEN index
                      ELSE IF view = "get_service_info" THEN get_service_info
                      ELSE handle_root_non_get_requests)
    /\ UNCHANGED <<store, next_id, posted>>

---------------------------------------------------------------------------
(* Specification *)

NoRequest == Request("", "", 0, NoContentType, EmptyObject, NoArgs)

NoResponse == [code |-> 0, kind |-> "none", body |-> <<>>, location |-> NoLocation]

\* No exchange is at hand: the service waits for a request.
Idle == request = NoRequest

\* The response has left the service; nothing of the exchange is kept.
Deliver ==
    /\ ~Idle
    /\ request' = NoRequest
    /\ response' = NoResponse
    /\ UNCHANGED <<store, next_id, posted>>

Init ==
    /\ store = [i \in {} |-> NewCustomer]
    /\ next_id = 1
    /\ request = NoRequest
    /\ response = NoResponse
    /\ posted = [i \in {} |-> EmptyObject]

Next ==
    \/ \E customer_id \in UrlIds : Idle /\ CustomerResource_get(customer_id)
    \/ \E customer_id \in UrlIds, ct \in ContentTypes : \E data \in BodiesFor(ct) :
          Idle /\ CustomerResource_put(customer_id, ct, data)
    \/ \E customer_id \in UrlIds : Idle /\ CustomerResource_delete(customer_id)
    \/ \E args \in QueryArgs : Idle /\ CustomerCollection_get(args)
    \/ \E ct \in ContentTypes : \E data \in BodiesFor(ct) :
          Idle /\ CustomerCollection_post(ct, data)
    \/ \E customer_id \in UrlIds : Idle /\ SuspendResource_put(customer_id)
    \/ \E method \in RootMethods : Idle /\ Root(method)
    \/ Deliver

Spec == Init /\ [][Next]_vars

---------------------------------------------------------------------------
(* Vocabulary of the properties *)

\* The exchange at hand is a request of this method on this path.
Is(method, path) == request.method = method /\ request.path = path

\* The date value written as ISO text.
DateText(d) == <<d.year, d.month, d.day>>

\* The JSON object shows the row: same id, same field values.
Shows(obj, row) ==
    /\ obj.id = row.id
    /\ \A f \in TextFields : obj[f] = row[f]
    /\ obj.member_since = DateText(row.member_since)

\* Field f of the row has the value the body gives for it.
FieldTaken(row, body, f) ==
    IF f = "member_since" THEN DateText(row.member_since) = body.member_since
    ELSE row[f] = body[f]

\* A body with every required member and a calendar date.
FullValidBody(body) ==
    /\ CreateFields \subseteq DOMAIN body
    /\ body.member_since \in {BaseBody.member_since, AltBody.member_since}

\* Every row of the table but the one with this id is as it was.
OthersUnchanged(customer_id) ==
    \A j \in DOMAIN store \ {customer_id} : j \in DOMAIN store' /\ store'[j] = store[j]

---------------------------------------------------------------------------
(* Properties *)

\* C1: round trip.  A GET /customers/i of an id i that a POST created and
\* that no PUT, suspend or DELETE has addressed since returns 200 with
\* name, address, email, phone_number and member_since as they were posted.
C1_RoundTrip ==
    (Is("GET", "customer") /\ request.id \in DOMAIN posted) =>
        /\ response.code = HTTP_200_OK
        /\ response.kind = "object"
        /\ \A f \in CreateFields \ {"status"} : response.body[f] = posted[request.id][f]

\* C1 happens: the second customer, posted with the other date and read
\* back while the first customer is stored too.
C1_Witness ==
    /\ Is("GET", "customer")
    /\ request.id \in DOMAIN posted
    /\ request.id = MaxId
    /\ Cardinality(DOMAIN store) = MaxId
    /\ posted[request.id] = LapsedBody
    /\ response.code = HTTP_200_OK

\* C2: a successful POST /customers adds exactly one row, under an id no
\* stored row has, leaves every stored row as it was, and answers 201 with
\* the created record and a Location of /customers/{id}; every row is
\* stored under its own id, so no two rows share one.
C2_PostAddsOne ==
    [][(Is("POST", "customers")' /\ response'.code = HTTP_201_CREATED) =>
          /\ \E i \in DOMAIN store' \ DOMAIN store :
                /\ DOMAIN store' = DOMAIN store \cup {i}
                /\ \A j \in DOMAIN store : store'[j].id # i
                /\ response'.kind = "object"
                /\ response'.body.id = i
                /\ Shows(response'.body, store'[i])
                /\ \A f \in CreateFields : response'.body[f] = request'.body[f]
                /\ response'.location = url_for_customer_resource(i)
          /\ \A j \in DOMAIN store : store'[j] = store[j]
          /\ \A j \in DOMAIN store' : store'[j].id = j
          /\ Cardinality({store'[j].id : j \in DOMAIN store'}) = Cardinality(DOMAIN store')
      ]_vars

\* C2 happens: a POST succeeded after an earlier customer was deleted, and
\* the new customer got a fresh id.
C2_Witness ==
    /\ Is("POST", "customers")
    /\ response.code = HTTP_201_CREATED
    /\ response.body.id = MaxId
    /\ DOMAIN store = {MaxId}
    /\ response.location = url_for_customer_resource(MaxId)

\* C3: a PUT /customers/{id} of a stored id with Content-Type
\* application/json and a full valid body returns 200 and leaves the row
\* with every field but the id as the body gives it and with the id of the
\* URL, also when the body carries another id.
C3_PutReplaces ==
    [][(/\ Is("PUT", "customer")'
        /\ request'.id \in DOMAIN store
        /\ request'.ct = JsonType
        /\ FullValidBody(request'.body)) =>
          /\ response'.code = HTTP_200_OK
          /\ request'.id \in DOMAIN store'
          /\ store'[request'.id].id = request'.id
          /\ \A f \in CreateFields : FieldTaken(store'[request'.id], request'.body, f)
          /\ response'.kind = "object"
          /\ Shows(response'.body, store'[request'.id])
      ]_vars

\* C3 happens: a PUT whose body carries the id of another stored customer
\* succeeded and changed the name.
C3_Witness ==
    /\ Is("PUT", "customer")
    /\ request.ct = JsonType
    /\ "id" \in DOMAIN request.body
    /\ request.body.id # request.id
    /\ request.body.id \in DOMAIN store
    /\ response.code = HTTP_200_OK
    /\ store[request.id].name = AltBody.name
    /\ store[request.body.id].name = BaseBody.name

\* C4: a successful PUT /customers/{id} leaves unchanged every field of
\* the row whose value in the body equals the stored value, leaves every
\* other row unchanged, and neither adds nor removes rows.
C4_PutFrame ==
    [][(Is("PUT", "customer")' /\ response'.code = HTTP_200_OK) =>
          /\ DOMAIN store' = DOMAIN store
          /\ request'.id \in DOMAIN store
          /\ OthersUnchanged(request'.id)
          /\ store'[request'.id].id = store[request'.id].id
          /\ \A f \in CreateFields :
                FieldTaken(store[request'.id], request'.body, f) =>
                    store'[request'.id][f] = store[request'.id][f]
      ]_vars

\* C4 happens: a suspended customer was renamed by a PUT that repeats its
\* status, while another customer is stored.
C4_Witness ==
    /\ Is("PUT", "customer")
    /\ response.code = HTTP_200_OK
    /\ Cardinality(DOMAIN store) = MaxId
    /\ request.body = LapsedBody
    /\ store[request.id].status = "suspended"
    /\ \E j \in DOMAIN store \ {request.id} : store[j].name = AltBody.name

\* On the table as it is, a GET of the id of the request is answered 404
\* and a DELETE of it leaves the table as it is.
DeleteSettled ==
    /\ CustomerResource_get_response(request.id).code = HTTP_404_NOT_FOUND
    /\ CustomerResource_delete_store(request.id) = store

\* C5: DELETE /customers/{id} returns 204 without content whether or not
\* the id is stored; afterwards the id is not stored, a GET of it returns
\* 404, every other row is as it was, and a second DELETE of the id leaves
\* the table exactly as it is.
C5_DeleteIdempotent ==
    [][Is("DELETE", "customer")' =>
          /\ response'.code = HTTP_204_NO_CONTENT
          /\ response'.kind = "empty"
          /\ request'.id \notin DOMAIN store'
          /\ DOMAIN store' = DOMAIN store \ {request'.id}
          /\ OthersUnchanged(request'.id)
          /\ DeleteSettled'
      ]_vars

\* C5 happens: a stored customer was deleted and another one is left.
C5_Witness ==
    /\ Is("DELETE", "customer")
    /\ response.code = HTTP_204_NO_CONTENT
    /\ request.id \in 1..(next_id - 1)
    /\ request.id \notin DOMAIN store
    /\ DOMAIN store # {}

\* C6: GET /customers/{id} returns 200 with the stored record when the id
\* is stored and 404 when it is not, and leaves the table unchanged.
C6_GetOrNotFound ==
    [][Is("GET", "customer")' =>
          /\ store' = store
          /\ IF request'.id \in DOMAIN store
             THEN /\ response'.code = HTTP_200_OK
                  /\ response'.kind = "object"
                  /\ response'.body.id = request'.id
                  /\ Shows(response'.body, store[request'.id])
                  /\ response'.body.status = store[request'.id].status
             ELSE /\ response'.code = HTTP_404_NOT_FOUND
                  /\ response'.kind = "error"
      ]_vars

\* C6 happens: a GET of an id that is not stored, while customers are
\* stored, was answered 404.
C6_Witness ==
    /\ Is("GET", "customer")
    /\ request.id \notin DOMAIN store
    /\ DOMAIN store # {}
    /\ response.code = HTTP_404_NOT_FOUND

\* C7: PUT /customers/{id} with Content-Type application/json on an id
\* that is not stored returns 404, inserts nothing and leaves the table
\* unchanged.
C7_PutNotFound ==
    [][(/\ Is("PUT", "customer")'
        /\ request'.ct = JsonType
        /\ request'.id \notin DOMAIN store) =>
          /\ response'.code = HTTP_404_NOT_FOUND
          /\ store' = store
          /\ next_id' = next_id
      ]_vars

\* C7 happens: a PUT with a full valid JSON body on an id that is not
\* stored, while another customer is stored, was answered 404.
C7_Witness ==
    /\ Is("PUT", "customer")
    /\ request.ct = JsonType
    /\ FullValidBody(request.body)
    /\ request.id \notin DOMAIN store
    /\ DOMAIN store # {}
    /\ response.code = HTTP_404_NOT_FOUND

\* C8: PUT /customers/{id} on a stored id without Content-Type, or with
\* any Content-Type other than exactly application/json, returns 415 and
\* leaves the row and the rest of the table unchanged.
C8_PutUnsupportedMedia ==
    [][(/\ Is("PUT", "customer")'
        /\ request'.id \in DOMAIN store
        /\ request'.ct # JsonType) =>
          /\ response'.code = HTTP_415_UNSUPPORTED_MEDIA_TYPE
          /\ store' = store
      ]_vars

\* C8 happens: a PUT without Content-Type whose body would rename the
\* stored customer was answered 415.
C8_Witness ==
    /\ Is("PUT", "customer")
    /\ request.ct = NoContentType
    /\ request.id \in DOMAIN store
    /\ request.body.name # store[request.id].name
    /\ response.code = HTTP_415_UNSUPPORTED_MEDIA_TYPE

\* C8 also happens with a JSON media type that is not exactly
\* application/json.
C8_WitnessCharset ==
    /\ Is("PUT", "customer")
    /\ request.ct = "application/json; charset=utf-8"
    /\ request.id \in DOMAIN store
    /\ response.code = HTTP_415_UNSUPPORTED_MEDIA_TYPE

\* C9: PUT /customers/{id}/suspend on a stored id returns 200 and sets the
\* status of that row to "suspended", leaving its other fields and every
\* other row unchanged; on an id that is not stored it returns 404 and
\* leaves the table unchanged.
C9_Suspend ==
    [][Is("PUT", "suspend")' =>
          IF request'.id \in DOMAIN store
          THEN /\ response'.code = HTTP_200_OK
               /\ DOMAIN store' = DOMAIN store
               /\ store'[request'.id] = [store[request'.id] EXCEPT !.status = "suspended"]
               /\ OthersUnchanged(request'.id)
               /\ response'.kind = "object"
               /\ response'.body.status = "suspended"
          ELSE /\ response'.code = HTTP_404_NOT_FOUND
               /\ store' = store
      ]_vars

\* C9 happens: an active customer was suspended while another customer
\* stays active.
C9_Witness ==
    /\ Is("PUT", "suspend")
    /\ response.code = HTTP_200_OK
    /\ request.id \in DOMAIN store
    /\ store[request.id].status = "suspended"
    /\ store[request.id].member_since = fromisoformat(BaseBody.member_since)
    /\ \E j \in DOMAIN store \ {request.id} : store[j].status = "active"

\* C9 also happens on an id that is not stored.
C9_WitnessNotFound ==
    /\ Is("PUT", "suspend")
    /\ request.id \notin DOMAIN store
    /\ DOMAIN store # {}
    /\ response.code = HTTP_404_NOT_FOUND

\* C10: GET /customers without query parameter returns 200 with exactly
\* the stored records, one entry for each and none missing, and leaves
\* the table unchanged.
C10_ListAll ==
    [][(Is("GET", "customers")' /\ request'.args = NoArgs) =>
          /\ store' = store
          /\ response'.code = HTTP_200_OK
          /\ response'.kind = "array"
          /\ Len(response'.body) = Cardinality(DOMAIN store)
          /\ {response'.body[k].id : k \in 1..Len(response'.body)} = DOMAIN store
          /\ \A k \in 1..Len(response'.body) :
                /\ Shows(response'.body[k], store[response'.body[k].id])
                /\ response'.body[k].status = store[response'.body[k].id].status
      ]_vars

\* C10 happens: the list of a full table was returned.
C10_Witness ==
    /\ Is("GET", "customers")
    /\ request.args = NoArgs
    /\ response.code = HTTP_200_OK
    /\ Cardinality(DOMAIN store) = MaxId
    /\ Len(response.body) = MaxId

\* The ids of the entries of a JSON array.
ListedIds(objs) == {objs[k].id : k \in 1..Len(objs)}

\* The response lists exactly the rows with these ids, one entry for each.
ListsExactly(resp, ids) ==
    /\ resp.code = HTTP_200_OK
    /\ resp.kind = "array"
    /\ Len(resp.body) = Cardinality(ids)
    /\ ListedIds(resp.body) = ids
    /\ \A k \in 1..Len(resp.body) :
          /\ resp.body[k].id \in DOMAIN store
          /\ Shows(resp.body[k], store[resp.body[k].id])

\* The ids of the rows whose field p has the value the query gives for it.
Matching(args, p) == {i \in DOMAIN store : FieldTaken(store[i], args, p)}

\* The query has the single parameter p, with a value that is not empty.
SoleFilter(args, p) == DOMAIN args = {p} /\ args[p] # ""

\* C11 as stated: GET /customers with exactly one of name, address, email,
\* phone_number or member_since set to a non-empty value returns exactly
\* the stored records whose field has that value.
C11_AsStated ==
    [][Is("GET", "customers")' =>
          \A p \in CreateFields \ {"status"} :
              SoleFilter(request'.args, p) =>
                  ListsExactly(response', Matching(request'.args, p))
      ]_vars

\* C11 as amended: the same for name, address, email and phone_number, and
\* for member_since when the value is an ISO calendar date; a member_since
\* that is not one is answered 400 and no list.
C11_SingleFilter ==
    [][Is("GET", "customers")' =>
          /\ store' = store
          /\ \A p \in TextFields \ {"status"} :
                SoleFilter(request'.args, p) =>
                    ListsExactly(response', Matching(request'.args, p))
          /\ DOMAIN request'.args = {"member_since"} =>
                IF IsIsoDate(request'.args.member_since)
                THEN ListsExactly(response', Matching(request'.args, "member_since"))
                ELSE response'.code = HTTP_400_BAD_REQUEST /\ response'.kind = "error"
      ]_vars

\* C11 happens: a filter on the email returned one of two stored
\* customers and left the other out.
C11_Witness ==
    /\ Is("GET", "customers")
    /\ DOMAIN request.args = {"email"}
    /\ response.code = HTTP_200_OK
    /\ Len(response.body) = 1
    /\ Cardinality(DOMAIN store) = MaxId
    /\ response.body[1].email = request.args.email
    /\ \E i \in DOMAIN store : store[i].email # request.args.email

\* C12: GET /customers with only the parameter status set to s returns
\* only stored records whose status is s.
C12_StatusFilter ==
    [][(Is("GET", "customers")' /\ SoleFilter(request'.args, "status")) =>
          /\ response'.code = HTTP_200_OK
          /\ response'.kind = "array"
          /\ \A k \in 1..Len(response'.body) :
                response'.body[k].status = request'.args.status
      ]_vars

\* The order in which the parameters take precedence.
FilterOrder == <<"name", "address", "email", "phone_number", "member_since", "status">>

\* The first parameter, in that order, among the given ones.
FirstOf(params) ==
    FilterOrder[CHOOSE k \in 1..Len(FilterOrder) :
                    /\ FilterOrder[k] \in params
                    /\ \A j \in 1..(k - 1) : FilterOrder[j] \notin params]

\* The parameters of the query whose value is not empty.
NonEmpty(args) == {p \in DOMAIN args : p = "member_since" \/ args[p] # ""}

\* C13 as stated: with two or more query parameters the result is that of
\* filtering on the first supplied one alone, in the order name, address,
\* email, phone_number, member_since, status; the others are ignored.
C13_AsStated ==
    [][(Is("GET", "customers")' /\ Cardinality(DOMAIN request'.args) >= 2) =>
          ListsExactly(response', Matching(request'.args, FirstOf(DOMAIN request'.args)))
      ]_vars

\* C13 as amended: with two or more query parameters of non-empty value,
\* member_since being an ISO calendar date when given, the result is that
\* of filtering on the first of them alone, in the order name, address,
\* email, phone_number, member_since, status; the others are ignored and
\* filters are never combined.
C13_FirstWins ==
    [][(/\ Is("GET", "customers")'
        /\ Cardinality(NonEmpty(request'.args)) >= 2
        /\ parse_args_ok(request'.args)) =>
          /\ ListsExactly(response', Matching(request'.args, FirstOf(NonEmpty(request'.args))))
          /\ store' = store
      ]_vars

\* C13 happens: name, address and status were given, and a customer with
\* that name was returned although its address and status differ.
C13_Witness ==
    /\ Is("GET", "customers")
    /\ DOMAIN request.args = {"name", "address", "status"}
    /\ response.code = HTTP_200_OK
    /\ \E k \in 1..Len(response.body) :
          /\ response.body[k].name = request.args.name
          /\ response.body[k].address # request.args.address
          /\ response.body[k].status # request.args.status

\* C14: a rejected POST /customers changes nothing: without Content-Type,
\* or with one that is not JSON, it is answered 415; with a JSON body that
\* is empty or lacks a required member it is answered 400; no row is added
\* and none is modified.
C14_RejectedPost ==
    [][Is("POST", "customers")' =>
          /\ request'.ct \in {NoContentType, "text/html"} =>
                response'.code = HTTP_415_UNSUPPORTED_MEDIA_TYPE
          /\ (/\ request'.ct \notin {NoContentType, "text/html"}
              /\ ~(CreateFields \subseteq DOMAIN request'.body)) =>
                response'.code = HTTP_400_BAD_REQUEST
          /\ response'.code # HTTP_201_CREATED =>
                /\ response'.kind = "error"
                /\ store' = store
                /\ next_id' = next_id
      ]_vars

\* C14 happens: a POST of the empty object was answered 400 while a
\* customer is stored.
C14_Witness ==
    /\ Is("POST", "customers")
    /\ request.ct = JsonType
    /\ request.body = EmptyObject
    /\ response.code = HTTP_400_BAD_REQUEST
    /\ DOMAIN store # {}

\* C14 also happens without Content-Type.
C14_WitnessNoContentType ==
    /\ Is("POST", "customers")
    /\ request.ct = NoContentType
    /\ response.code = HTTP_415_UNSUPPORTED_MEDIA_TYPE
    /\ DOMAIN store # {}

\* C15: GET / returns 200 with the service metadata, a JSON object whose
\* name is "Customer Service REST API"; POST, PUT, DELETE and PATCH on /
\* return 405; none of them changes the table.
C15_Root ==
    [][(request'.path = "root") =>
          /\ store' = store
          /\ IF request'.method = "GET"
             THEN /\ response'.code = HTTP_200_OK
                  /\ response'.kind = "object"
                  /\ response'.body.name = "Customer Service REST API"
             ELSE response'.code = HTTP_405_METHOD_NOT_ALLOWED
      ]_vars

\* C16: in PUT /customers/{id} the media type is checked before the row
\* is looked up: a PUT without Content-Type, or with one other than
\* application/json, is answered with the 415 error whether or not the id
\* is stored and whatever the body, never 404 or 400, and the table and
\* the id counter stay as they were.
C16_CheckBeforeLookup ==
    [][(Is("PUT", "customer")' /\ request'.ct # JsonType) =>
          /\ response' = abort(HTTP_415_UNSUPPORTED_MEDIA_TYPE)
          /\ response'.code \notin {HTTP_404_NOT_FOUND, HTTP_400_BAD_REQUEST}
          /\ store' = store
          /\ next_id' = next_id
      ]_vars

\* C16 happens: with customers stored, a PUT of a full body with a media
\* type other than application/json on an id that is not stored was
\* answered 415.
C16_Witness ==
    /\ Is("PUT", "customer")
    /\ request.ct \in ContentTypes \ {JsonType, NoContentType}
    /\ request.id \notin DOMAIN store
    /\ DOMAIN store # {}
    /\ request.body \in FullBodies
    /\ response.code = HTTP_415_UNSUPPORTED_MEDIA_TYPE

\* C16 also happens without Content-Type on an id that is not stored.
C16_WitnessNoContentType ==
    /\ Is("PUT", "customer")
    /\ request.ct = NoContentType
    /\ request.id \notin DOMAIN store
    /\ response = abort(HTTP_415_UNSUPPORTED_MEDIA_TYPE)

===========================================================================
